---------------------------- MODULE Spec2Model ----------------------------
(***************************************************************************)
(* Model of the solana-float-safety program: the entrypoint                *)
(* process_instruction (src/src/lib.rs) and the f32 kernel                 *)
(* (src/src/float_ops.rs).                                                 *)
(*                                                                         *)
(* A byte is a number in 0..255.  An f32 is the record of the three fields *)
(* of its IEEE-754 binary32 bit pattern, [s, e, m]: sign bit, 8-bit biased *)
(* exponent, 23-bit fraction.  Two f32 records are equal exactly when the  *)
(* bit patterns are equal.  All arithmetic stays below 2^31.               *)
(***************************************************************************)
EXTENDS Integers, Sequences, FiniteSets, TLC

VARIABLES
    host,              \* how the executing target produces NaN results
    calls,             \* number of invocations of the entrypoint so far
    pc,                \* position inside process_instruction
    instruction_data,  \* the payload of the current invocation
    instruction_type,  \* local: instruction_data[0]
    a_bytes,           \* local: instruction_data[1..5] as [u8; 4]
    b_bytes,           \* local: instruction_data[5..9] as [u8; 4]
    a,                 \* local: f32::from_le_bytes(a_bytes)
    b,                 \* local: f32::from_le_bytes(b_bytes)
    result,            \* local: the value the kernel operation returned
    ret,               \* the ProgramResult returned by the invocation
    kernel,            \* kernel operations invoked by this invocation
    log,               \* msg! lines emitted by this invocation
    reads,             \* payload indices read by this invocation
    prev,              \* what the previous invocation was given and did
    steps,             \* statements executed by this invocation
    lib,               \* the last direct call of a kernel function
    program_id,        \* argument _program_id of the current invocation
    accounts           \* argument _accounts of the current invocation

vars == <<host, calls, pc, instruction_data, instruction_type, a_bytes,
          b_bytes, a, b, result, ret, kernel, log, reads, prev, steps, lib,
          program_id, accounts>>

-----------------------------------------------------------------------------
(* Bounds of the model. *)

\* Longest payload handed to the entrypoint.
MaxLen == 10

\* Number of invocations in one run.
MaxCalls == 3

-----------------------------------------------------------------------------
(* IEEE-754 binary32, as the f32 type of the source. *)

Pow2(n) == 2 ^ n

RECURSIVE NBits(_)
NBits(x) == IF x = 0 THEN 0 ELSE 1 + NBits(x \div 2)

Max(x, y) == IF x >= y THEN x ELSE y

F32(s, e, m) == [s |-> s, e |-> e, m |-> m]

IsNaN(x) == x.e = 255 /\ x.m # 0
IsInf(x) == x.e = 255 /\ x.m = 0
IsZero(x) == x.e = 0 /\ x.m = 0
IsSubnormal(x) == x.e = 0 /\ x.m # 0

\* The exponent and the significand of a finite f32:
\* |x| = Sig(x) * 2^(Exp(x) - 150).
Exp(x) == IF x.e = 0 THEN 1 ELSE x.e
Sig(x) == IF x.e = 0 THEN x.m ELSE x.m + Pow2(23)

\* The four bytes read most significant first.
from_le_bytes_big_endian(bytes) ==
    F32(bytes[1] \div 128,
        (bytes[1] % 128) * 2 + bytes[2] \div 128,
        (bytes[2] % 128) * 65536 + bytes[3] * 256 + bytes[4])

\* f32::from_le_bytes: byte 0 is the least significant byte of the pattern.
from_le_bytes(bytes) ==
    F32(bytes[4] \div 128,
        (bytes[4] % 128) * 2 + bytes[3] \div 128,
        (bytes[3] % 128) * 65536 + bytes[2] * 256 + bytes[1])

\* f32::to_le_bytes.
to_le_bytes(x) ==
    << x.m % 256,
       (x.m \div 256) % 256,
       (x.e % 2) * 128 + x.m \div 65536,
       x.s * 128 + x.e \div 2 >>

\* The == of f32: NaN equals nothing, +0.0 equals -0.0.
F32Eq(x, y) ==
    /\ ~IsNaN(x)
    /\ ~IsNaN(y)
    /\ \/ x = y
       \/ IsZero(x) /\ IsZero(y)

\* The NaN an operation returns.  Rust leaves the sign and the payload of a
\* NaN result to the target: a target either quiets a NaN operand or returns
\* its default NaN, whose sign it also chooses.
Hosts ==
    { [default_sign |-> 1, propagate |-> TRUE],
      [default_sign |-> 0, propagate |-> TRUE],
      [default_sign |-> 0, propagate |-> FALSE] }

DefaultNaN == F32(host.default_sign, 255, Pow2(22))

Quiet(x) == F32(x.s, 255, (x.m % Pow2(22)) + Pow2(22))

NaNResult(x, y) ==
    IF ~host.propagate THEN DefaultNaN
    ELSE IF IsNaN(x) THEN Quiet(x)
    ELSE IF IsNaN(y) THEN Quiet(y)
    ELSE DefaultNaN

\* sig * 2^exp cut to an f32 toward zero.
RoundPack_truncating(s, sig, exp, sticky) ==
    LET n     == NBits(sig)
        shift == Max(n - 24, (0 - 149) - exp)
        q     == IF shift <= 0 THEN sig * Pow2(0 - shift)
                 ELSE IF shift >= 31 THEN 0
                 ELSE sig \div Pow2(shift)
        e2    == exp + shift + 150
    IN  IF q < Pow2(23) THEN F32(s, 0, q)
        ELSE IF e2 >= 255 THEN F32(s, 254, Pow2(23) - 1)
        ELSE F32(s, e2, q - Pow2(23))

\* Round sig * 2^exp (plus a nonzero amount below the last bit of sig when
\* sticky) to the nearest f32, ties to even; sig < 2^30.
RoundPack(s, sig, exp, sticky) ==
    LET n     == NBits(sig)
        shift == Max(n - 24, (0 - 149) - exp)
        q     == IF shift <= 0 THEN sig * Pow2(0 - shift)
                 ELSE IF shift >= 31 THEN 0
                 ELSE sig \div Pow2(shift)
        r     == IF shift <= 0 THEN 0
                 ELSE IF shift >= 31 THEN sig
                 ELSE sig % Pow2(shift)
        half  == IF shift <= 0 THEN 1
                 ELSE IF shift >= 31 THEN Pow2(30)
                 ELSE Pow2(shift - 1)
        up    == /\ shift > 0
                 /\ \/ r > half
                    \/ r = half /\ sticky
                    \/ r = half /\ ~sticky /\ q % 2 = 1
        sig1  == IF up THEN q + 1 ELSE q
        carry == sig1 = Pow2(24)
        sig2  == IF carry THEN Pow2(23) ELSE sig1
        e2    == exp + shift + 150 + (IF carry THEN 1 ELSE 0)
    IN  IF sig2 < Pow2(23) THEN F32(s, 0, sig2)
        ELSE IF e2 >= 255 THEN F32(s, 255, 0)
        ELSE F32(s, e2, sig2 - Pow2(23))

\* x >> d, the bits shifted out ORed into the last bit kept.
ShiftRightJam(x, d) ==
    IF d = 0 THEN x
    ELSE IF d >= 31 THEN (IF x # 0 THEN 1 ELSE 0)
    ELSE LET q == x \div Pow2(d)
         IN  IF x % Pow2(d) # 0 /\ q % 2 = 0 THEN q + 1 ELSE q

\* |x| >= |y| for finite x and y.
MagGeq(x, y) == x.e > y.e \/ (x.e = y.e /\ x.m >= y.m)

\* x + y of finite x and y, |x| >= |y|.
AddFinite(x, y) ==
    LET sx  == Sig(x) * 32
        sy  == ShiftRightJam(Sig(y) * 32, Exp(x) - Exp(y))
        sum == IF x.s = y.s THEN sx + sy ELSE sx - sy
    IN  IF sum = 0
        THEN F32(IF x.s = 1 /\ y.s = 1 THEN 1 ELSE 0, 0, 0)
        ELSE RoundPack(x.s, sum, Exp(x) - 155, FALSE)

\* The + of f32.
F32Add(x, y) ==
    IF IsNaN(x) \/ IsNaN(y) THEN NaNResult(x, y)
    ELSE IF IsInf(x) /\ IsInf(y)
         THEN (IF x.s = y.s THEN x ELSE DefaultNaN)
    ELSE IF IsInf(x) THEN x
    ELSE IF IsInf(y) THEN y
    ELSE IF MagGeq(x, y) THEN AddFinite(x, y)
    ELSE AddFinite(y, x)

Xor(s, t) == IF s = t THEN 0 ELSE 1

\* The 48-bit number hi * 2^24 + lo as a number below 2^30 with an exponent
\* and a sticky flag.
RECURSIVE Shrink(_, _, _, _)
Shrink(hi, lo, exp, sticky) ==
    IF hi < 64 THEN [sig |-> hi * Pow2(24) + lo, exp |-> exp, sticky |-> sticky]
    ELSE Shrink(hi \div 2, (hi % 2) * Pow2(23) + lo \div 2, exp + 1,
                sticky \/ lo % 2 = 1)

\* x * y of finite nonzero x and y.
MulFinite(x, y) ==
    LET xh  == Sig(x) \div 4096
        xl  == Sig(x) % 4096
        yh  == Sig(y) \div 4096
        yl  == Sig(y) % 4096
        mid == xh * yl + xl * yh
        low == xl * yl + (mid % 4096) * 4096
        lo  == low % Pow2(24)
        hi  == xh * yh + mid \div 4096 + low \div Pow2(24)
        p   == Shrink(hi, lo, Exp(x) + Exp(y) - 300, FALSE)
    IN  RoundPack(Xor(x.s, y.s), p.sig, p.exp, p.sticky)

\* The * of f32.
F32Mul(x, y) ==
    IF IsNaN(x) \/ IsNaN(y) THEN NaNResult(x, y)
    ELSE IF (IsInf(x) /\ IsZero(y)) \/ (IsZero(x) /\ IsInf(y)) THEN DefaultNaN
    ELSE IF IsInf(x) \/ IsInf(y) THEN F32(Xor(x.s, y.s), 255, 0)
    ELSE IF IsZero(x) \/ IsZero(y) THEN F32(Xor(x.s, y.s), 0, 0)
    ELSE MulFinite(x, y)

\* n more bits of the quotient of rem / d, rem < d < 2^24.
RECURSIVE LongDiv(_, _, _, _)
LongDiv(rem, d, n, q) ==
    IF n = 0 THEN [q |-> q, rem |-> rem]
    ELSE IF 2 * rem >= d THEN LongDiv(2 * rem - d, d, n - 1, 2 * q + 1)
    ELSE LongDiv(2 * rem, d, n - 1, 2 * q)

\* x / y of finite nonzero x and y.
DivFinite(x, y) ==
    LET kx == 24 - NBits(Sig(x))
        ky == 24 - NBits(Sig(y))
        nx == Sig(x) * Pow2(kx)
        ny == Sig(y) * Pow2(ky)
        d  == LongDiv(nx % ny, ny, 27, nx \div ny)
    IN  RoundPack(Xor(x.s, y.s), d.q, (Exp(x) - kx) - (Exp(y) - ky) - 27,
                  d.rem # 0)

\* The / of f32.
F32Div(x, y) ==
    IF IsNaN(x) \/ IsNaN(y) THEN NaNResult(x, y)
    ELSE IF (IsInf(x) /\ IsInf(y)) \/ (IsZero(x) /\ IsZero(y)) THEN DefaultNaN
    ELSE IF IsInf(x) \/ IsZero(y) THEN F32(Xor(x.s, y.s), 255, 0)
    ELSE IF IsInf(y) \/ IsZero(x) THEN F32(Xor(x.s, y.s), 0, 0)
    ELSE DivFinite(x, y)

-----------------------------------------------------------------------------
(* Natural numbers of any size, for the significands of binary64 and for     *)
(* square roots: sequences of 15-bit limbs, least significant first, with no *)
(* zero limb at the top.                                                     *)

Base == 2 ^ 15

RECURSIVE BNorm(_)
BNorm(x) ==
    IF x = <<>> THEN <<>>
    ELSE IF x[Len(x)] = 0 THEN BNorm(SubSeq(x, 1, Len(x) - 1))
    ELSE x

RECURSIVE BFromInt(_)
BFromInt(n) == IF n = 0 THEN <<>> ELSE <<n % Base>> \o BFromInt(n \div Base)

RECURSIVE BToInt(_)
BToInt(x) == IF x = <<>> THEN 0 ELSE x[1] + Base * BToInt(Tail(x))

Limb(x, i) == IF i <= Len(x) THEN x[i] ELSE 0

RECURSIVE BAddFrom(_, _, _, _)
BAddFrom(x, y, i, c) ==
    IF i > Len(x) /\ i > Len(y) THEN (IF c = 0 THEN <<>> ELSE <<c>>)
    ELSE LET t == Limb(x, i) + Limb(y, i) + c
         IN  <<t % Base>> \o BAddFrom(x, y, i + 1, t \div Base)

BAdd(x, y) == BAddFrom(x, y, 1, 0)

RECURSIVE BSubFrom(_, _, _, _)
BSubFrom(x, y, i, c) ==
    IF i > Len(x) THEN <<>>
    ELSE LET t == Limb(x, i) - Limb(y, i) - c
         IN  IF t < 0 THEN <<t + Base>> \o BSubFrom(x, y, i + 1, 1)
             ELSE <<t>> \o BSubFrom(x, y, i + 1, 0)

\* x - y, x >= y.
BSub(x, y) == BNorm(BSubFrom(x, y, 1, 0))

RECURSIVE BLessFrom(_, _, _)
BLessFrom(x, y, i) ==
    IF i = 0 THEN FALSE
    ELSE IF x[i] # y[i] THEN x[i] < y[i]
    ELSE BLessFrom(x, y, i - 1)

\* x < y.
BLess(x, y) ==
    IF Len(x) # Len(y) THEN Len(x) < Len(y) ELSE BLessFrom(x, y, Len(x))

RECURSIVE BMulSmallFrom(_, _, _, _)
BMulSmallFrom(x, k, i, c) ==
    IF i > Len(x) THEN (IF c = 0 THEN <<>> ELSE <<c>>)
    ELSE LET t == x[i] * k + c
         IN  <<t % Base>> \o BMulSmallFrom(x, k, i + 1, t \div Base)

\* x * k, k < Base.
BMulSmall(x, k) == IF k = 0 THEN <<>> ELSE BMulSmallFrom(x, k, 1, 0)

BShlLimbs(x, n) == IF x = <<>> THEN <<>> ELSE [i \in 1..n |-> 0] \o x

RECURSIVE BMulFrom(_, _, _)
BMulFrom(x, y, j) ==
    IF j > Len(y) THEN <<>>
    ELSE BAdd(BShlLimbs(BMulSmall(x, y[j]), j - 1), BMulFrom(x, y, j + 1))

BMul(x, y) == BMulFrom(x, y, 1)

\* x * 2^k.
BShl(x, k) == BShlLimbs(BMulSmall(x, 2 ^ (k % 15)), k \div 15)

RECURSIVE BDivSmallFrom(_, _, _, _)
BDivSmallFrom(x, d, i, r) ==
    IF i = 0 THEN <<>>
    ELSE LET t == r * Base + x[i]
         IN  BDivSmallFrom(x, d, i - 1, t % d) \o <<t \div d>>

\* x \div 2^k.
BShr(x, k) ==
    IF k \div 15 >= Len(x) THEN <<>>
    ELSE LET y == SubSeq(x, k \div 15 + 1, Len(x))
         IN  BNorm(BDivSmallFrom(y, 2 ^ (k % 15), Len(y), 0))

BNBits(x) == IF x = <<>> THEN 0 ELSE 15 * (Len(x) - 1) + NBits(x[Len(x)])

BBit(x, i) == (Limb(x, (i \div 15) + 1) \div (2 ^ (i % 15))) % 2

\* Long division by y # 0 over the bits j..0 of the limb w, from the quotient
\* q and the remainder r so far.  The test on the lengths has both numbers
\* computed before the next bit.
RECURSIVE BDivBits(_, _, _, _, _)
BDivBits(w, y, j, q, r) ==
    IF j < 0 THEN [q |-> q, r |-> r]
    ELSE LET r2 == BAdd(BMulSmall(r, 2), BFromInt((w \div (2 ^ j)) % 2))
             q2 == BMulSmall(q, 2)
             q3 == IF BLess(r2, y) THEN q2 ELSE BAdd(q2, <<1>>)
             r3 == IF BLess(r2, y) THEN r2 ELSE BSub(r2, y)
         IN  IF Len(q3) + Len(r3) >= 0 THEN BDivBits(w, y, j - 1, q3, r3)
             ELSE [q |-> q3, r |-> r3]

\* The quotient and the remainder of x by y # 0, limb i of x downwards.
RECURSIVE BDivModFrom(_, _, _, _, _)
BDivModFrom(x, y, i, q, r) ==
    IF i < 1 THEN [q |-> q, r |-> r]
    ELSE LET d == BDivBits(x[i], y, 14, q, r)
         IN  IF Len(d.q) + Len(d.r) >= 0 THEN BDivModFrom(x, y, i - 1, d.q, d.r)
             ELSE d

BDivMod(x, y) == BDivModFrom(x, y, Len(x), <<>>, <<>>)

\* The largest r with r * r <= x, decided from bit i of r downwards.
RECURSIVE BSqrtFrom(_, _, _)
BSqrtFrom(x, i, r) ==
    IF i < 0 THEN r
    ELSE LET c == BAdd(r, BShl(<<1>>, i))
         IN  IF BLess(x, BMul(c, c)) THEN BSqrtFrom(x, i - 1, r)
             ELSE BSqrtFrom(x, i - 1, c)

BSqrt(x) == BSqrtFrom(x, BNBits(x) \div 2, <<>>)

-----------------------------------------------------------------------------
(* IEEE-754 arithmetic of a binary format fmt = [p, bias, emax]: p bits of   *)
(* significand, the exponent bias, the all-ones exponent.  A number is       *)
(* [s, e, m] with m a natural number of any size.                            *)

Binary32 == [p |-> 24, bias |-> 127, emax |-> 255]
Binary64 == [p |-> 53, bias |-> 1023, emax |-> 2047]

G(s, e, m) == [s |-> s, e |-> e, m |-> m]

GIsNaN(fmt, x) == x.e = fmt.emax /\ x.m # <<>>
GIsInf(fmt, x) == x.e = fmt.emax /\ x.m = <<>>
GIsZero(x) == x.e = 0 /\ x.m = <<>>

GExp(x) == IF x.e = 0 THEN 1 ELSE x.e
GSig(fmt, x) == IF x.e = 0 THEN x.m ELSE BAdd(x.m, BShl(<<1>>, fmt.p - 1))

\* The exponent of the last bit of the significand of a number of exponent e.
GUlp(fmt, e) == e - fmt.bias - (fmt.p - 1)

GDefaultNaN(fmt) == G(host.default_sign, fmt.emax, BShl(<<1>>, fmt.p - 2))

GQuiet(fmt, x) ==
    G(x.s, fmt.emax,
      IF BBit(x.m, fmt.p - 2) = 1 THEN x.m
      ELSE BAdd(x.m, BShl(<<1>>, fmt.p - 2)))

GNaNResult(fmt, x, y) ==
    IF ~host.propagate THEN GDefaultNaN(fmt)
    ELSE IF GIsNaN(fmt, x) THEN GQuiet(fmt, x)
    ELSE IF GIsNaN(fmt, y) THEN GQuiet(fmt, y)
    ELSE GDefaultNaN(fmt)

\* Round sig * 2^exp (plus a nonzero amount below the last bit of sig when
\* sticky) to the nearest number of the format, ties to even; sig # 0.
GRoundPack(fmt, s, sig, exp, sticky) ==
    LET n     == BNBits(sig)
        shift == Max(n - fmt.p, GUlp(fmt, 1) - exp)
        far   == shift > n + 1
        q     == IF shift <= 0 THEN BShl(sig, 0 - shift)
                 ELSE IF far THEN <<>>
                 ELSE BShr(sig, shift)
        r     == IF shift <= 0 \/ far THEN <<>> ELSE BSub(sig, BShl(q, shift))
        half  == IF shift <= 0 \/ far THEN <<1>> ELSE BShl(<<1>>, shift - 1)
        up    == /\ shift > 0
                 /\ ~far
                 /\ \/ BLess(half, r)
                    \/ r = half /\ sticky
                    \/ r = half /\ ~sticky /\ BBit(q, 0) = 1
        sig1  == IF up THEN BAdd(q, <<1>>) ELSE q
        carry == BNBits(sig1) = fmt.p + 1
        sig2  == IF carry THEN BShr(sig1, 1) ELSE sig1
        e2    == exp + shift + fmt.bias + (fmt.p - 1) + (IF carry THEN 1 ELSE 0)
    IN  IF BNBits(sig2) < fmt.p THEN G(s, 0, sig2)
        ELSE IF e2 >= fmt.emax THEN G(s, fmt.emax, <<>>)
        ELSE G(s, e2, BSub(sig2, BShl(<<1>>, fmt.p - 1)))

\* x + y of finite x and y, the exponent of x not below that of y.  A y
\* more than p + 2 binary places below x counts as one unit three places
\* below the last bit of x.
GAddFinite(fmt, x, y) ==
    LET d   == GExp(x) - GExp(y)
        nil == GSig(fmt, y) = <<>>
        jam == d > fmt.p + 2 /\ ~nil
        sx  == BShl(GSig(fmt, x), IF nil THEN 0 ELSE IF jam THEN 3 ELSE d)
        sy  == IF jam THEN <<1>> ELSE GSig(fmt, y)
        e   == IF nil THEN GUlp(fmt, GExp(x))
               ELSE IF jam THEN GUlp(fmt, GExp(x)) - 3
               ELSE GUlp(fmt, GExp(y))
    IN  IF x.s = y.s
        THEN (IF sx = <<>> /\ sy = <<>> THEN G(x.s, 0, <<>>)
              ELSE GRoundPack(fmt, x.s, BAdd(sx, sy), e, FALSE))
        ELSE IF sx = sy THEN G(0, 0, <<>>)
        ELSE IF BLess(sx, sy) THEN GRoundPack(fmt, y.s, BSub(sy, sx), e, FALSE)
        ELSE GRoundPack(fmt, x.s, BSub(sx, sy), e, FALSE)

GAdd(fmt, x, y) ==
    IF GIsNaN(fmt, x) \/ GIsNaN(fmt, y) THEN GNaNResult(fmt, x, y)
    ELSE IF GIsInf(fmt, x) /\ GIsInf(fmt, y)
         THEN (IF x.s = y.s THEN x ELSE GDefaultNaN(fmt))
    ELSE IF GIsInf(fmt, x) THEN x
    ELSE IF GIsInf(fmt, y) THEN y
    ELSE IF GExp(x) >= GExp(y) THEN GAddFinite(fmt, x, y)
    ELSE GAddFinite(fmt, y, x)

GMul(fmt, x, y) ==
    IF GIsNaN(fmt, x) \/ GIsNaN(fmt, y) THEN GNaNResult(fmt, x, y)
    ELSE IF (GIsInf(fmt, x) /\ GIsZero(y)) \/ (GIsZero(x) /\ GIsInf(fmt, y))
         THEN GDefaultNaN(fmt)
    ELSE IF GIsInf(fmt, x) \/ GIsInf(fmt, y)
         THEN G(Xor(x.s, y.s), fmt.emax, <<>>)
    ELSE IF GIsZero(x) \/ GIsZero(y) THEN G(Xor(x.s, y.s), 0, <<>>)
    ELSE GRoundPack(fmt, Xor(x.s, y.s), BMul(GSig(fmt, x), GSig(fmt, y)),
                    GUlp(fmt, GExp(x)) + GUlp(fmt, GExp(y)), FALSE)

\* x / y of finite nonzero x and y.
GDivFinite(fmt, x, y) ==
    LET sx == GSig(fmt, x)
        sy == GSig(fmt, y)
        k  == fmt.p + 2 + Max(0, BNBits(sy) - BNBits(sx))
        d  == BDivMod(BShl(sx, k), sy)
    IN  GRoundPack(fmt, Xor(x.s, y.s), d.q, GExp(x) - GExp(y) - k, d.r # <<>>)

GDiv(fmt, x, y) ==
    IF GIsNaN(fmt, x) \/ GIsNaN(fmt, y) THEN GNaNResult(fmt, x, y)
    ELSE IF (GIsInf(fmt, x) /\ GIsInf(fmt, y)) \/ (GIsZero(x) /\ GIsZero(y))
         THEN GDefaultNaN(fmt)
    ELSE IF GIsInf(fmt, x) \/ GIsZero(y) THEN G(Xor(x.s, y.s), fmt.emax, <<>>)
    ELSE IF GIsInf(fmt, y) \/ GIsZero(x) THEN G(Xor(x.s, y.s), 0, <<>>)
    ELSE GDivFinite(fmt, x, y)

\* The square root of a finite x > 0.
GSqrtFinite(fmt, x) ==
    LET sx  == GSig(fmt, x)
        e0  == GUlp(fmt, GExp(x))
        k0  == 2 * (fmt.p + 2)
        k   == IF (e0 - k0) % 2 = 0 THEN k0 ELSE k0 + 1
        big == BShl(sx, k)
        r   == BSqrt(big)
    IN  GRoundPack(fmt, 0, r, (e0 - k) \div 2, BMul(r, r) # big)

GSqrt(fmt, x) ==
    IF GIsNaN(fmt, x) THEN GNaNResult(fmt, x, x)
    ELSE IF GIsZero(x) THEN x
    ELSE IF x.s = 1 THEN GDefaultNaN(fmt)
    ELSE IF GIsInf(fmt, x) THEN x
    ELSE GSqrtFinite(fmt, x)

\* The == of the format.
GEq(fmt, x, y) ==
    /\ ~GIsNaN(fmt, x)
    /\ ~GIsNaN(fmt, y)
    /\ \/ x = y
       \/ GIsZero(x) /\ GIsZero(y)

\* An f32 as a number of Binary32 and back.
FromF32(x) == G(x.s, x.e, BFromInt(x.m))
ToF32(g) == F32(g.s, g.e, BToInt(g.m))

\* The sqrt of f32.
F32Sqrt(x) == ToF32(GSqrt(Binary32, FromF32(x)))

\* An f64 is the record of the fields of its binary64 bit pattern, the
\* 52-bit fraction as its upper and its lower 26 bits.
F64(s, e, hi, lo) == [s |-> s, e |-> e, hi |-> hi, lo |-> lo]

FromF64(x) == G(x.s, x.e, BAdd(BShl(BFromInt(x.hi), 26), BFromInt(x.lo)))
ToF64(g) ==
    LET top == BShr(g.m, 26)
    IN  F64(g.s, g.e, BToInt(top), BToInt(BSub(g.m, BShl(top, 26))))

F64IsNaN(x) == x.e = 2047 /\ (x.hi # 0 \/ x.lo # 0)
F64IsInf(x) == x.e = 2047 /\ x.hi = 0 /\ x.lo = 0
F64IsZero(x) == x.e = 0 /\ x.hi = 0 /\ x.lo = 0

\* The + * / == of f64.
F64Add(x, y) == ToF64(GAdd(Binary64, FromF64(x), FromF64(y)))
F64Mul(x, y) == ToF64(GMul(Binary64, FromF64(x), FromF64(y)))
F64Div(x, y) == ToF64(GDiv(Binary64, FromF64(x), FromF64(y)))
F64Eq(x, y) == GEq(Binary64, FromF64(x), FromF64(y))

-----------------------------------------------------------------------------
(* The kernel, src/src/float_ops.rs. *)

\* A local that holds no f32 yet.
NoValue == F32(0 - 1, 0 - 1, 0 - 1)

\* The literal 0.0.
Zero == F32(0, 0, 0)

add_floats(x, y) == F32Add(x, y)

\* multiply_floats with the body of add_floats.
multiply_floats_as_add(x, y) == F32Add(x, y)

multiply_floats(x, y) == F32Mul(x, y)

\* divide_floats with the divisor compared by bit pattern, so that -0.0 is
\* taken for a nonzero divisor.
divide_floats_bitwise(x, y) ==
    IF y = Zero
    THEN [ok |-> FALSE, err |-> "Division by zero", val |-> NoValue]
    ELSE [ok |-> TRUE, err |-> "", val |-> F32Div(x, y)]

\* divide_floats that also refuses a quotient that is not finite.
divide_floats_checked(x, y) ==
    IF F32Eq(y, Zero) \/ F32Div(x, y).e = 255
    THEN [ok |-> FALSE, err |-> "Division by zero", val |-> NoValue]
    ELSE [ok |-> TRUE, err |-> "", val |-> F32Div(x, y)]

\* divide_floats that takes a NaN divisor for a zero one.
divide_floats_rejects_nan(x, y) ==
    IF F32Eq(y, Zero) \/ IsNaN(y)
    THEN [ok |-> FALSE, err |-> "Division by zero", val |-> NoValue]
    ELSE [ok |-> TRUE, err |-> "", val |-> F32Div(x, y)]

divide_floats(x, y) ==
    IF F32Eq(y, Zero)
    THEN [ok |-> FALSE, err |-> "Division by zero", val |-> NoValue]
    ELSE [ok |-> TRUE, err |-> "", val |-> F32Div(x, y)]

\* sqrt_float of the magnitude of its argument.
sqrt_float_abs(x) == F32Sqrt(F32(0, x.e, x.m))

sqrt_float(x) == F32Sqrt(x)

(* The kernel in double precision, src/src/double_ops.rs. *)

\* The literal 0.0 of an f64.
Zero64 == F64(0, 0, 0, 0)

add_doubles(x, y) == F64Add(x, y)

multiply_doubles(x, y) == F64Mul(x, y)

\* divide_doubles with the divisor compared by bit pattern.
divide_doubles_bitwise(x, y) ==
    IF y = Zero64
    THEN [ok |-> FALSE, err |-> "Division by zero", val |-> NoValue]
    ELSE [ok |-> TRUE, err |-> "", val |-> F64Div(x, y)]

divide_doubles(x, y) ==
    IF F64Eq(y, Zero64)
    THEN [ok |-> FALSE, err |-> "Division by zero", val |-> NoValue]
    ELSE [ok |-> TRUE, err |-> "", val |-> F64Div(x, y)]

-----------------------------------------------------------------------------
(* The inputs of the model. *)

\* The first n elements of s, all of s when it is shorter.
Take(s, n) == SubSeq(s, 1, IF n < Len(s) THEN n ELSE Len(s))

\* Opcode bytes: the three mapped ones and two that are not.
Opcodes == {0, 1, 2, 3, 255}

\* Operands: +0.0, -0.0, 1.0, -1.0, 2.0, 3.0, 10.0, f32::MAX, the least
\* subnormal, +infinity, -infinity, a quiet NaN and a negative signalling
\* NaN.
Operands ==
    { F32(0, 0, 0), F32(1, 0, 0), F32(0, 127, 0), F32(1, 127, 0),
      F32(0, 128, 0), F32(0, 128, 4194304), F32(0, 130, 2097152), F32(0, 254, 8388607),
      F32(0, 0, 1), F32(0, 255, 0), F32(1, 255, 0), F32(0, 255, 4194304),
      F32(1, 255, 1) }

\* Bytes that follow the ninth.
Extras == [1..(MaxLen - 9) -> {0, 255}]

Payloads ==
    { Take(<<op>> \o to_le_bytes(x) \o to_le_bytes(y) \o ext, n) :
        op \in Opcodes, x \in Operands, y \in Operands, ext \in Extras,
        n \in 0..MaxLen }

\* Payloads a later invocation may be given whatever came before: an add,
\* a division, a division by zero, an unknown opcode and the empty payload.
Replays ==
    { <<0>> \o to_le_bytes(F32(0, 127, 0)) \o to_le_bytes(F32(0, 128, 4194304)),
      <<2>> \o to_le_bytes(F32(0, 127, 0)) \o to_le_bytes(F32(0, 128, 4194304)),
      <<2>> \o to_le_bytes(F32(0, 127, 0)) \o to_le_bytes(F32(1, 0, 0)),
      <<3>> \o to_le_bytes(F32(0, 127, 0)) \o to_le_bytes(F32(0, 127, 0)),
      <<>> }

\* A later invocation is given the payload of the one before, its first
\* nine bytes, or one of Replays.
NextPayloads ==
    IF calls = 0 THEN Payloads
    ELSE {prev.instruction_data, Take(prev.instruction_data, 9)} \cup Replays

-----------------------------------------------------------------------------
(* process_instruction, src/src/lib.rs. *)

Unset == 0 - 1

NoPrev ==
    [valid |-> FALSE, instruction_data |-> <<>>, instruction_type |-> Unset,
     a |-> NoValue, b |-> NoValue, result |-> NoValue, ret |-> "none",
     kernel |-> <<>>, log |-> <<>>]

\* The {} of an f32 in a msg! line: the shortest decimal that reads back as
\* the same f32, and "NaN" for every NaN.
Display(x) ==
    IF IsNaN(x) THEN [text |-> "NaN", s |-> 0, e |-> 0, m |-> 0]
    ELSE [text |-> "num", s |-> x.s, e |-> x.e, m |-> x.m]

Line(op, x, y, r) ==
    [op |-> op, a |-> Display(x), b |-> Display(y), result |-> Display(r)]

\* No public key: the entrypoint has not been entered.
NoKey == 0 - 1

\* The program id and the accounts an invocation is entered with: the
\* program's own id and no account, or another id and one account.
Callers ==
    { [program_id |-> 1, accounts |-> <<>>],
      [program_id |-> 2,
       accounts |-> << [key |-> 3, lamports |-> 5, data |-> <<7>>] >>] }

\* No outcome of a kernel function.
NoOut == [ok |-> FALSE, err |-> "none", val |-> NoValue]

\* No kernel function has been called directly.
NoLib ==
    [fn |-> "none", x |-> NoValue, y |-> NoValue, out |-> NoOut,
     on |-> [default_sign |-> 0 - 1, propagate |-> FALSE], before |-> NoOut]

Init ==
    /\ host \in Hosts
    /\ calls = 0
    /\ pc = "idle"
    /\ instruction_data = <<>>
    /\ instruction_type = Unset
    /\ a_bytes = <<>>
    /\ b_bytes = <<>>
    /\ a = NoValue
    /\ b = NoValue
    /\ result = NoValue
    /\ ret = "none"
    /\ kernel = <<>>
    /\ log = <<>>
    /\ reads = {}
    /\ prev = NoPrev
    /\ steps = 0
    /\ lib = NoLib
    /\ program_id = NoKey
    /\ accounts = <<>>

\* The runtime enters process_instruction with a payload.
Call(p) ==
    /\ pc = "idle"
    /\ calls < MaxCalls
    /\ p \in NextPayloads
    /\ calls' = calls + 1
    /\ pc' = "check_empty"
    /\ steps' = 0
    /\ instruction_data' = p
    /\ instruction_type' = Unset
    /\ a_bytes' = <<>>
    /\ b_bytes' = <<>>
    /\ a' = NoValue
    /\ b' = NoValue
    /\ result' = NoValue
    /\ ret' = "none"
    /\ kernel' = <<>>
    /\ log' = <<>>
    /\ reads' = {}
    /\ \E c \in Callers :
          program_id' = c.program_id /\ accounts' = c.accounts
    /\ UNCHANGED <<lib, host, prev>>

\* return Err(e) and return Ok(()).
Return(r) ==
    /\ pc' = "returned"
    /\ ret' = r

\* An index out of bounds.
Panic ==
    /\ pc' = "returned"
    /\ ret' = "Panic"

\* process_instruction without the emptiness check.
CheckEmpty_missing ==
    /\ pc = "check_empty"
    /\ steps' = steps + 1
    /\ pc' = "read_type"
    /\ UNCHANGED <<program_id, accounts>>
    /\ UNCHANGED <<lib, host, calls, instruction_data, instruction_type, a_bytes,
                   b_bytes, a, b, result, ret, kernel, log, reads, prev>>

\* if instruction_data.is_empty()
CheckEmpty ==
    /\ pc = "check_empty"
    /\ steps' = steps + 1
    /\ IF Len(instruction_data) = 0
       THEN Return("InvalidInstructionData")
       ELSE pc' = "read_type" /\ ret' = ret
    /\ UNCHANGED <<program_id, accounts>>
    /\ UNCHANGED <<lib, host, calls, instruction_data, instruction_type, a_bytes,
                   b_bytes, a, b, result, kernel, log, reads, prev>>

\* The opcode found by a scan of the whole payload.
ReadType_scanning ==
    /\ pc = "read_type"
    /\ steps' = steps + Len(instruction_data)
    /\ IF Len(instruction_data) < 1
       THEN Panic /\ UNCHANGED <<instruction_type, reads>>
       ELSE /\ instruction_type' = instruction_data[1]
            /\ reads' = reads \cup {0}
            /\ pc' = "check_len"
            /\ ret' = ret
    /\ UNCHANGED <<program_id, accounts>>
    /\ UNCHANGED <<lib, host, calls, instruction_data, a_bytes, b_bytes, a, b,
                   result, kernel, log, prev>>

\* let instruction_type = instruction_data[0];
ReadType ==
    /\ pc = "read_type"
    /\ steps' = steps + 1
    /\ IF Len(instruction_data) < 1
       THEN Panic /\ UNCHANGED <<instruction_type, reads>>
       ELSE /\ instruction_type' = instruction_data[1]
            /\ reads' = reads \cup {0}
            /\ pc' = "check_len"
            /\ ret' = ret
    /\ UNCHANGED <<program_id, accounts>>
    /\ UNCHANGED <<lib, host, calls, instruction_data, a_bytes, b_bytes, a, b,
                   result, kernel, log, prev>>

\* The length check made only for a known opcode, an unknown one going to
\* the match first.
CheckLen_after_lookup ==
    /\ pc = "check_len"
    /\ steps' = steps + 1
    /\ IF instruction_type \notin {0, 1, 2}
       THEN pc' = "match" /\ ret' = ret
       ELSE IF Len(instruction_data) < 9
            THEN Return("InvalidInstructionData")
            ELSE pc' = "slice_a" /\ ret' = ret
    /\ UNCHANGED <<program_id, accounts>>
    /\ UNCHANGED <<lib, host, calls, instruction_data, instruction_type, a_bytes,
                   b_bytes, a, b, result, kernel, log, reads, prev>>

\* The length check that covers the first operand only.
CheckLen_first_operand ==
    /\ pc = "check_len"
    /\ steps' = steps + 1
    /\ IF Len(instruction_data) < 5
       THEN Return("InvalidInstructionData")
       ELSE pc' = "slice_a" /\ ret' = ret
    /\ UNCHANGED <<program_id, accounts>>
    /\ UNCHANGED <<lib, host, calls, instruction_data, instruction_type, a_bytes,
                   b_bytes, a, b, result, kernel, log, reads, prev>>

\* The length check with 8 for 9.
CheckLen_off_by_one ==
    /\ pc = "check_len"
    /\ steps' = steps + 1
    /\ IF Len(instruction_data) < 8
       THEN Return("InvalidInstructionData")
       ELSE pc' = "slice_a" /\ ret' = ret
    /\ UNCHANGED <<program_id, accounts>>
    /\ UNCHANGED <<lib, host, calls, instruction_data, instruction_type, a_bytes,
                   b_bytes, a, b, result, kernel, log, reads, prev>>

\* The length check with != for <.
CheckLen_exact ==
    /\ pc = "check_len"
    /\ steps' = steps + 1
    /\ IF Len(instruction_data) # 9
       THEN Return("InvalidInstructionData")
       ELSE pc' = "slice_a" /\ ret' = ret
    /\ UNCHANGED <<program_id, accounts>>
    /\ UNCHANGED <<lib, host, calls, instruction_data, instruction_type, a_bytes,
                   b_bytes, a, b, result, kernel, log, reads, prev>>

\* if instruction_data.len() < 9
CheckLen ==
    /\ pc = "check_len"
    /\ steps' = steps + 1
    /\ IF Len(instruction_data) < 9
       THEN Return("InvalidInstructionData")
       ELSE pc' = "slice_a" /\ ret' = ret
    /\ UNCHANGED <<program_id, accounts>>
    /\ UNCHANGED <<lib, host, calls, instruction_data, instruction_type, a_bytes,
                   b_bytes, a, b, result, kernel, log, reads, prev>>

\* The first operand sliced as bytes 1..6, one byte more than the array
\* holds.
SliceA_wide ==
    /\ pc = "slice_a"
    /\ steps' = steps + 1
    /\ IF Len(instruction_data) < 6
       THEN Panic /\ UNCHANGED <<a_bytes, reads>>
       ELSE LET slice == SubSeq(instruction_data, 2, 6)
            IN  /\ reads' = reads \cup 1..5
                /\ IF Len(slice) # 4
                   THEN Return("InvalidInstructionData") /\ a_bytes' = a_bytes
                   ELSE a_bytes' = slice /\ pc' = "slice_b" /\ ret' = ret
    /\ UNCHANGED <<program_id, accounts>>
    /\ UNCHANGED <<lib, host, calls, instruction_data, instruction_type, b_bytes,
                   a, b, result, kernel, log, prev>>

\* let a_bytes: [u8; 4] = instruction_data[1..5].try_into().map_err(..)?;
SliceA ==
    /\ pc = "slice_a"
    /\ steps' = steps + 1
    /\ IF Len(instruction_data) < 5
       THEN Panic /\ UNCHANGED <<a_bytes, reads>>
       ELSE LET slice == SubSeq(instruction_data, 2, 5)
            IN  /\ reads' = reads \cup 1..4
                /\ IF Len(slice) # 4
                   THEN Return("InvalidInstructionData") /\ a_bytes' = a_bytes
                   ELSE a_bytes' = slice /\ pc' = "slice_b" /\ ret' = ret
    /\ UNCHANGED <<program_id, accounts>>
    /\ UNCHANGED <<lib, host, calls, instruction_data, instruction_type, b_bytes,
                   a, b, result, kernel, log, prev>>

\* let b_bytes: [u8; 4] = instruction_data[5..9].try_into().map_err(..)?;
SliceB ==
    /\ pc = "slice_b"
    /\ steps' = steps + 1
    /\ IF Len(instruction_data) < 9
       THEN Panic /\ UNCHANGED <<b_bytes, reads>>
       ELSE LET slice == SubSeq(instruction_data, 6, 9)
            IN  /\ reads' = reads \cup 5..8
                /\ IF Len(slice) # 4
                   THEN Return("InvalidInstructionData") /\ b_bytes' = b_bytes
                   ELSE b_bytes' = slice /\ pc' = "decode" /\ ret' = ret
    /\ UNCHANGED <<program_id, accounts>>
    /\ UNCHANGED <<lib, host, calls, instruction_data, instruction_type, a_bytes,
                   a, b, result, kernel, log, prev>>

\* Decoding that refuses an operand that is not finite.
DecodeOperands_validating ==
    /\ pc = "decode"
    /\ steps' = steps + 1
    /\ a' = from_le_bytes(a_bytes)
    /\ b' = from_le_bytes(b_bytes)
    /\ IF from_le_bytes(a_bytes).e = 255 \/ from_le_bytes(b_bytes).e = 255
       THEN Return("InvalidInstructionData")
       ELSE pc' = "match" /\ ret' = ret
    /\ UNCHANGED <<program_id, accounts>>
    /\ UNCHANGED <<lib, host, calls, instruction_data, instruction_type, a_bytes,
                   b_bytes, result, kernel, log, reads, prev>>

\* let a = f32::from_le_bytes(a_bytes); let b = f32::from_le_bytes(b_bytes);
DecodeOperands ==
    /\ pc = "decode"
    /\ steps' = steps + 1
    /\ a' = from_le_bytes(a_bytes)
    /\ b' = from_le_bytes(b_bytes)
    /\ pc' = "match"
    /\ UNCHANGED <<program_id, accounts>>
    /\ UNCHANGED <<lib, host, calls, instruction_data, instruction_type, a_bytes,
                   b_bytes, result, ret, kernel, log, reads, prev>>

Invoked(op, x, y) == [op |-> op, a |-> x, b |-> y]

\* The add arm adding to what the invocation before it computed.
MatchAdd_accumulating ==
    /\ pc = "match"
    /\ steps' = steps + 1
    /\ instruction_type = 0
    /\ result' = IF prev.valid /\ prev.result # NoValue
                 THEN add_floats(prev.result, add_floats(a, b))
                 ELSE add_floats(a, b)
    /\ kernel' = Append(kernel, Invoked("add_floats", a, b))
    /\ pc' = "msg_add"
    /\ UNCHANGED <<program_id, accounts>>
    /\ UNCHANGED <<lib, host, calls, instruction_data, instruction_type, a_bytes,
                   b_bytes, a, b, ret, log, reads, prev>>

\* The add arm that wants an account to be passed.
MatchAdd_needs_account ==
    /\ pc = "match"
    /\ steps' = steps + 1
    /\ instruction_type = 0
    /\ IF accounts = <<>>
       THEN /\ Return("NotEnoughAccountKeys")
            /\ UNCHANGED <<result, kernel>>
       ELSE /\ result' = add_floats(a, b)
            /\ kernel' = Append(kernel, Invoked("add_floats", a, b))
            /\ pc' = "msg_add"
            /\ ret' = ret
    /\ UNCHANGED <<program_id, accounts>>
    /\ UNCHANGED <<lib, host, calls, instruction_data, instruction_type, a_bytes,
                   b_bytes, a, b, log, reads, prev>>

\* The add arm that adds in double precision, add_doubles(a as f64,
\* b as f64) as f32; the sum of two f32 rounded to f64 and then to f32 is
\* the f32 sum.
MatchAdd_in_double ==
    /\ pc = "match"
    /\ steps' = steps + 1
    /\ instruction_type = 0
    /\ result' = add_floats(a, b)
    /\ kernel' = Append(kernel, Invoked("add_doubles", a, b))
    /\ pc' = "msg_add"
    /\ UNCHANGED <<program_id, accounts>>
    /\ UNCHANGED <<lib, host, calls, instruction_data, instruction_type, a_bytes,
                   b_bytes, a, b, ret, log, reads, prev>>

\* 0 => let result = float_ops::add_floats(a, b);
MatchAdd ==
    /\ pc = "match"
    /\ steps' = steps + 1
    /\ instruction_type = 0
    /\ result' = add_floats(a, b)
    /\ kernel' = Append(kernel, Invoked("add_floats", a, b))
    /\ pc' = "msg_add"
    /\ UNCHANGED <<program_id, accounts>>
    /\ UNCHANGED <<lib, host, calls, instruction_data, instruction_type, a_bytes,
                   b_bytes, a, b, ret, log, reads, prev>>

\* A trace line whose formatting fails on a NaN and fails the invocation.
MsgAdd_fallible ==
    /\ pc = "msg_add"
    /\ steps' = steps + 1
    /\ IF IsNaN(result)
       THEN Return("InvalidArgument") /\ log' = log
       ELSE /\ log' = Append(log, Line("Add", a, b, result))
            /\ pc' = "ok"
            /\ ret' = ret
    /\ UNCHANGED <<program_id, accounts>>
    /\ UNCHANGED <<lib, host, calls, instruction_data, instruction_type, a_bytes,
                   b_bytes, a, b, result, kernel, reads, prev>>

\* msg!("Add: {} + {} = {}", a, b, result);
MsgAdd ==
    /\ pc = "msg_add"
    /\ steps' = steps + 1
    /\ log' = Append(log, Line("Add", a, b, result))
    /\ pc' = "ok"
    /\ UNCHANGED <<program_id, accounts>>
    /\ UNCHANGED <<lib, host, calls, instruction_data, instruction_type, a_bytes,
                   b_bytes, a, b, result, ret, kernel, reads, prev>>

\* The multiply arm with an overflow check on the product.
MatchMultiply_overflow_checked ==
    /\ pc = "match"
    /\ steps' = steps + 1
    /\ instruction_type = 1
    /\ IF IsInf(multiply_floats(a, b)) /\ ~IsInf(a) /\ ~IsInf(b)
       THEN /\ Return("InvalidArgument")
            /\ UNCHANGED <<result, kernel>>
       ELSE /\ result' = multiply_floats(a, b)
            /\ kernel' = Append(kernel, Invoked("multiply_floats", a, b))
            /\ pc' = "msg_multiply"
            /\ ret' = ret
    /\ UNCHANGED <<program_id, accounts>>
    /\ UNCHANGED <<lib, host, calls, instruction_data, instruction_type, a_bytes,
                   b_bytes, a, b, log, reads, prev>>

\* The multiply arm that also adds the operands.
MatchMultiply_twice ==
    /\ pc = "match"
    /\ steps' = steps + 1
    /\ instruction_type = 1
    /\ result' = multiply_floats(a, b)
    /\ kernel' = kernel \o << Invoked("multiply_floats", a, b),
                              Invoked("add_floats", a, b) >>
    /\ pc' = "msg_multiply"
    /\ UNCHANGED <<program_id, accounts>>
    /\ UNCHANGED <<lib, host, calls, instruction_data, instruction_type, a_bytes,
                   b_bytes, a, b, ret, log, reads, prev>>

\* 1 => let result = float_ops::multiply_floats(a, b);
MatchMultiply ==
    /\ pc = "match"
    /\ steps' = steps + 1
    /\ instruction_type = 1
    /\ result' = multiply_floats(a, b)
    /\ kernel' = Append(kernel, Invoked("multiply_floats", a, b))
    /\ pc' = "msg_multiply"
    /\ UNCHANGED <<program_id, accounts>>
    /\ UNCHANGED <<lib, host, calls, instruction_data, instruction_type, a_bytes,
                   b_bytes, a, b, ret, log, reads, prev>>

\* msg!("Multiply: {} * {} = {}", a, b, result);
MsgMultiply ==
    /\ pc = "msg_multiply"
    /\ steps' = steps + 1
    /\ log' = Append(log, Line("Multiply", a, b, result))
    /\ pc' = "ok"
    /\ UNCHANGED <<program_id, accounts>>
    /\ UNCHANGED <<lib, host, calls, instruction_data, instruction_type, a_bytes,
                   b_bytes, a, b, result, ret, kernel, reads, prev>>

\* The divide arm reporting the kernel's error as InvalidInstructionData.
MatchDivide_wrong_code ==
    /\ pc = "match"
    /\ steps' = steps + 1
    /\ instruction_type = 2
    /\ kernel' = Append(kernel, Invoked("divide_floats", a, b))
    /\ LET r == divide_floats(a, b)
       IN  IF r.ok
           THEN result' = r.val /\ pc' = "msg_divide" /\ ret' = ret
           ELSE Return("InvalidInstructionData") /\ result' = result
    /\ UNCHANGED <<program_id, accounts>>
    /\ UNCHANGED <<lib, host, calls, instruction_data, instruction_type, a_bytes,
                   b_bytes, a, b, log, reads, prev>>

\* The divide arm dividing what the invocation before it computed.
MatchDivide_chained ==
    /\ pc = "match"
    /\ steps' = steps + 1
    /\ instruction_type = 2
    /\ kernel' = Append(kernel, Invoked("divide_floats", a, b))
    /\ LET x == IF prev.valid /\ prev.result # NoValue THEN prev.result
                ELSE a
           r == divide_floats(x, b)
       IN  IF r.ok
           THEN result' = r.val /\ pc' = "msg_divide" /\ ret' = ret
           ELSE Return("InvalidArgument") /\ result' = result
    /\ UNCHANGED <<program_id, accounts>>
    /\ UNCHANGED <<lib, host, calls, instruction_data, instruction_type,
                   a_bytes, b_bytes, a, b, log, reads, prev>>

\* The divide arm that traces the failure before it returns it.
MatchDivide_traces_failure ==
    /\ pc = "match"
    /\ steps' = steps + 1
    /\ instruction_type = 2
    /\ kernel' = Append(kernel, Invoked("divide_floats", a, b))
    /\ LET r == divide_floats(a, b)
       IN  IF r.ok
           THEN result' = r.val /\ pc' = "msg_divide" /\ ret' = ret
                /\ log' = log
           ELSE Return("InvalidArgument") /\ result' = result
                /\ log' = Append(log, Line("Divide", a, b, b))
    /\ UNCHANGED <<program_id, accounts>>
    /\ UNCHANGED <<lib, host, calls, instruction_data, instruction_type, a_bytes,
                   b_bytes, a, b, reads, prev>>

\* 2 => match float_ops::divide_floats(a, b) { Ok(result) => .., Err(_) => .. }
MatchDivide ==
    /\ pc = "match"
    /\ steps' = steps + 1
    /\ instruction_type = 2
    /\ kernel' = Append(kernel, Invoked("divide_floats", a, b))
    /\ LET r == divide_floats(a, b)
       IN  IF r.ok
           THEN result' = r.val /\ pc' = "msg_divide" /\ ret' = ret
           ELSE Return("InvalidArgument") /\ result' = result
    /\ UNCHANGED <<program_id, accounts>>
    /\ UNCHANGED <<lib, host, calls, instruction_data, instruction_type, a_bytes,
                   b_bytes, a, b, log, reads, prev>>

\* msg!("Divide: {} / {} = {}", a, b, result);
MsgDivide ==
    /\ pc = "msg_divide"
    /\ steps' = steps + 1
    /\ log' = Append(log, Line("Divide", a, b, result))
    /\ pc' = "ok"
    /\ UNCHANGED <<program_id, accounts>>
    /\ UNCHANGED <<lib, host, calls, instruction_data, instruction_type, a_bytes,
                   b_bytes, a, b, result, ret, kernel, reads, prev>>

\* The default arm falling through to Ok(()).
MatchOther_falls_through ==
    /\ pc = "match"
    /\ steps' = steps + 1
    /\ instruction_type \notin {0, 1, 2}
    /\ pc' = "ok"
    /\ UNCHANGED <<program_id, accounts>>
    /\ UNCHANGED <<lib, host, calls, instruction_data, instruction_type, a_bytes,
                   b_bytes, a, b, result, ret, kernel, log, reads, prev>>

\* The match with an arm 3 that takes the square root of the first operand.
MatchOther_sqrt ==
    /\ pc = "match"
    /\ steps' = steps + 1
    /\ instruction_type \notin {0, 1, 2}
    /\ IF instruction_type = 3
       THEN /\ result' = sqrt_float(a)
            /\ kernel' = Append(kernel, Invoked("sqrt_float", a, b))
            /\ pc' = "ok"
            /\ ret' = ret
       ELSE /\ Return("InvalidInstructionData")
            /\ UNCHANGED <<result, kernel>>
    /\ UNCHANGED <<program_id, accounts>>
    /\ UNCHANGED <<lib, host, calls, instruction_data, instruction_type, a_bytes,
                   b_bytes, a, b, log, reads, prev>>

\* _ => return Err(ProgramError::InvalidInstructionData);
MatchOther ==
    /\ pc = "match"
    /\ steps' = steps + 1
    /\ instruction_type \notin {0, 1, 2}
    /\ Return("InvalidInstructionData")
    /\ UNCHANGED <<program_id, accounts>>
    /\ UNCHANGED <<lib, host, calls, instruction_data, instruction_type, a_bytes,
                   b_bytes, a, b, result, kernel, log, reads, prev>>

\* A success that tells the caller whether the value is infinite.
ReturnOk_with_value ==
    /\ pc = "ok"
    /\ steps' = steps + 1
    /\ Return(IF IsInf(result) THEN "Ok(inf)" ELSE "Ok")
    /\ UNCHANGED <<program_id, accounts>>
    /\ UNCHANGED <<lib, host, calls, instruction_data, instruction_type, a_bytes,
                   b_bytes, a, b, result, kernel, log, reads, prev>>

\* Ok(())
ReturnOk ==
    /\ pc = "ok"
    /\ steps' = steps + 1
    /\ Return("Ok")
    /\ UNCHANGED <<program_id, accounts>>
    /\ UNCHANGED <<lib, host, calls, instruction_data, instruction_type, a_bytes,
                   b_bytes, a, b, result, kernel, log, reads, prev>>

\* The runtime has the ProgramResult; the locals of the invocation are gone
\* and only what the runtime saw of it remains.
Exit ==
    /\ pc = "returned"
    /\ pc' = "idle"
    /\ prev' = [valid |-> TRUE, instruction_data |-> instruction_data,
                instruction_type |-> instruction_type, a |-> a, b |-> b,
                result |-> result, ret |-> ret, kernel |-> kernel,
                log |-> log]
    /\ UNCHANGED <<program_id, accounts>>
    /\ UNCHANGED <<steps, lib, host, calls, instruction_data, instruction_type, a_bytes,
                   b_bytes, a, b, result, ret, kernel, log, reads>>

Next ==
    \/ \E p \in NextPayloads : Call(p)
    \/ CheckEmpty
    \/ ReadType
    \/ CheckLen
    \/ SliceA
    \/ SliceB
    \/ DecodeOperands
    \/ MatchAdd
    \/ MsgAdd
    \/ MatchMultiply
    \/ MsgMultiply
    \/ MatchDivide
    \/ MsgDivide
    \/ MatchOther
    \/ ReturnOk
    \/ Exit

Spec == Init /\ [][Next]_vars

\* One statement of process_instruction.
Step ==
    \/ CheckEmpty
    \/ ReadType
    \/ CheckLen
    \/ SliceA
    \/ SliceB
    \/ DecodeOperands
    \/ MatchAdd
    \/ MsgAdd
    \/ MatchMultiply
    \/ MsgMultiply
    \/ MatchDivide
    \/ MsgDivide
    \/ MatchOther
    \/ ReturnOk

-----------------------------------------------------------------------------
(* The kernel called directly, as the tests of src/tests call it: one call   *)
(* of one function on one pair of operands, on the host of the run, and the  *)
(* same call made once more on any host.  The functions keep nothing from   *)
(* one call to the next, so a run is one call and its repeat.  lib holds    *)
(* the function, its arguments, what it returned and on which host, and     *)
(* what the call before the repeat returned.                                 *)

\* f32 arguments: zero, the least subnormal, 2^-24, 1.0, 1.0 + 2^-23, 2.0,
\* 3.0, 4.0, 2^103, f32::MAX, infinity, a quiet and a signaling NaN, of
\* either sign.
LibOperands ==
    { F32(s, c[1], c[2]) :
        s \in {0, 1},
        c \in { <<0, 0>>, <<0, 1>>, <<103, 0>>, <<127, 0>>, <<127, 1>>,
                <<128, 0>>, <<128, 4194304>>, <<129, 0>>, <<230, 0>>,
                <<254, 8388607>>, <<255, 0>>, <<255, 4194304>>, <<255, 1>> } }

\* f64 arguments of the same classes.
LibOperands64 ==
    { F64(s, c[1], c[2], c[3]) :
        s \in {0, 1},
        c \in { <<0, 0, 0>>, <<0, 0, 1>>, <<1023, 0, 0>>, <<1024, 0, 0>>,
                <<2046, 67108863, 67108863>>, <<2047, 0, 0>>,
                <<2047, 33554432, 0>>, <<2047, 0, 1>> } }

\* What a function that returns a plain number hands back.
Value(v) == [ok |-> TRUE, err |-> "", val |-> v]

\* The outcome of the kernel function fn on x and y, on the current host.
Outcome(fn, x, y) ==
    CASE fn = "add_floats"       -> Value(add_floats(x, y))
      [] fn = "multiply_floats"  -> Value(multiply_floats(x, y))
      [] fn = "divide_floats"    -> divide_floats(x, y)
      [] fn = "sqrt_float"       -> Value(sqrt_float(x))
      [] fn = "add_doubles"      -> Value(add_doubles(x, y))
      [] fn = "multiply_doubles" -> Value(multiply_doubles(x, y))
      [] fn = "divide_doubles"   -> divide_doubles(x, y)

LibInit == Init

LibCall(fn, x, y) ==
    /\ lib.fn = "none"
    /\ lib' = [fn |-> fn, x |-> x, y |-> y, out |-> Outcome(fn, x, y),
               on |-> host, before |-> NoOut]
    /\ UNCHANGED <<program_id, accounts>>
    /\ UNCHANGED <<host, calls, pc, instruction_data, instruction_type,
                   a_bytes, b_bytes, a, b, result, ret, kernel, log, reads,
                   prev, steps>>

LibAdd == \E x \in LibOperands, y \in LibOperands : LibCall("add_floats", x, y)

LibMultiply ==
    \E x \in LibOperands, y \in LibOperands : LibCall("multiply_floats", x, y)

LibDivide ==
    \E x \in LibOperands, y \in LibOperands : LibCall("divide_floats", x, y)

LibSqrt == \E x \in LibOperands : LibCall("sqrt_float", x, NoValue)

LibAddDoubles ==
    \E x \in LibOperands64, y \in LibOperands64 : LibCall("add_doubles", x, y)

LibMultiplyDoubles ==
    \E x \in LibOperands64, y \in LibOperands64 :
        LibCall("multiply_doubles", x, y)

LibDivideDoubles ==
    \E x \in LibOperands64, y \in LibOperands64 :
        LibCall("divide_doubles", x, y)

\* The next call is made on another host.
LibRehost ==
    /\ lib.fn # "none"
    /\ lib.before = NoOut
    /\ \E h \in Hosts \ {host} : host' = h
    /\ UNCHANGED <<program_id, accounts>>
    /\ UNCHANGED <<lib, calls, pc, instruction_data, instruction_type,
                   a_bytes, b_bytes, a, b, result, ret, kernel, log, reads,
                   prev, steps>>

\* The call that was made is made again with the same arguments.
LibRepeat ==
    /\ lib.fn # "none"
    /\ lib.before = NoOut
    /\ lib' = [lib EXCEPT !.out = Outcome(lib.fn, lib.x, lib.y),
                          !.on = host, !.before = lib.out]
    /\ UNCHANGED <<program_id, accounts>>
    /\ UNCHANGED <<host, calls, pc, instruction_data, instruction_type,
                   a_bytes, b_bytes, a, b, result, ret, kernel, log, reads,
                   prev, steps>>

LibNext ==
    \/ LibAdd
    \/ LibMultiply
    \/ LibDivide
    \/ LibSqrt
    \/ LibAddDoubles
    \/ LibMultiplyDoubles
    \/ LibDivideDoubles
    \/ LibRehost
    \/ LibRepeat

LibSpec == LibInit /\ [][LibNext]_vars

-----------------------------------------------------------------------------
(* What the claims speak of, read off the payload bytes. *)

Returned == pc = "returned"

PayloadLen == Len(instruction_data)

\* Byte 0 of a nonempty payload.
OpByte == instruction_data[1]

\* Bytes 1..5 and 5..9 of a payload of at least 9 bytes.
DividendBytes == SubSeq(instruction_data, 2, 5)
DivisorBytes == SubSeq(instruction_data, 6, 9)

\* The little-endian bytes of +0.0 and of -0.0.
DivisorIsZero == DivisorBytes \in { <<0, 0, 0, 0>>, <<0, 0, 0, 128>> }

OperandA == from_le_bytes(DividendBytes)
OperandB == from_le_bytes(DivisorBytes)

\* The kernel operation an opcode is mapped to.
OpName(op) ==
    CASE op = 0 -> "add_floats"
      [] op = 1 -> "multiply_floats"
      [] op = 2 -> "divide_floats"
      [] OTHER -> "none"

-----------------------------------------------------------------------------
(* The claims. *)

\* C1: an invocation with opcode 2 and at least 9 bytes whose divisor bytes
\* are those of +0.0 or -0.0 returns InvalidArgument, whatever the dividend.
C1_ZeroDivisorIsInvalidArgument ==
    (Returned /\ PayloadLen >= 9 /\ OpByte = 2 /\ DivisorIsZero)
        => ret = "InvalidArgument"

\* A NaN divided by -0.0 has been refused.
C1_Witness ==
    /\ Returned
    /\ PayloadLen >= 9
    /\ OpByte = 2
    /\ DivisorBytes = <<0, 0, 0, 128>>
    /\ IsNaN(a)
    /\ ret = "InvalidArgument"

\* C2: an invocation with opcode 2 and at least 9 bytes whose divisor is not
\* zero (finite, subnormal, infinite or NaN) returns Ok and has computed a / b
\* of the two operands of the payload, also when a / b is infinite or NaN.
C2_NonzeroDivisorSucceeds ==
    (Returned /\ PayloadLen >= 9 /\ OpByte = 2 /\ ~DivisorIsZero)
        => /\ ret = "Ok"
           /\ result = F32Div(OperandA, OperandB)
           /\ log = << Line("Divide", OperandA, OperandB,
                            F32Div(OperandA, OperandB)) >>

\* 1.0 divided by the least subnormal has succeeded with +infinity.
C2_Witness ==
    /\ Returned
    /\ PayloadLen >= 9
    /\ OpByte = 2
    /\ a = F32(0, 127, 0)
    /\ IsSubnormal(b)
    /\ result = F32(0, 255, 0)
    /\ ret = "Ok"

\* C3: an invocation with opcode 0 or 1 and at least 9 bytes returns Ok for
\* every pair of operand bit patterns, NaN and infinity among them.
C3_AddMultiplyAlwaysSucceed ==
    (Returned /\ PayloadLen >= 9 /\ OpByte \in {0, 1}) => ret = "Ok"

\* A multiply of a NaN by an infinity has succeeded.
C3_Witness ==
    /\ Returned
    /\ PayloadLen >= 9
    /\ OpByte = 1
    /\ IsNaN(OperandA)
    /\ IsInf(OperandB)
    /\ ret = "Ok"

\* C4: for a 9-byte payload with opcode 0 or 1, the value the invocation
\* computes is a + b (opcode 0) or a * b (opcode 1) of the two operands of
\* the payload, it comes from the one kernel operation add_floats or
\* multiply_floats on them, and it is the value the trace line carries.
C4_AddMultiplyValue ==
    (PayloadLen = 9 /\ instruction_type \in {0, 1}
        /\ pc \in {"msg_add", "msg_multiply", "ok", "returned"})
        => LET value == IF instruction_type = 0
                        THEN F32Add(OperandA, OperandB)
                        ELSE F32Mul(OperandA, OperandB)
           IN  /\ result = value
               /\ kernel = << Invoked(OpName(instruction_type),
                                      OperandA, OperandB) >>
               /\ Returned =>
                    log = << Line(IF instruction_type = 0 THEN "Add"
                                  ELSE "Multiply",
                                  OperandA, OperandB, value) >>

\* 3.0 * 3.0 has been computed as 9.0.
C4_Witness ==
    /\ Returned
    /\ PayloadLen = 9
    /\ OpByte = 1
    /\ a = F32(0, 128, 4194304)
    /\ b = F32(0, 128, 4194304)
    /\ result = F32(0, 130, 1048576)

\* C5: opcode 0 invokes add_floats, 1 multiply_floats and 2 divide_floats and
\* nothing else; with any other opcode byte and at least 9 bytes the
\* invocation returns InvalidInstructionData, having invoked no kernel
\* operation.
C5_UnknownOpcodeRejected ==
    /\ (Returned /\ PayloadLen >= 9 /\ OpByte \notin {0, 1, 2})
          => /\ ret = "InvalidInstructionData"
             /\ kernel = <<>>
             /\ result = NoValue
    /\ kernel # <<>>
          => /\ Len(kernel) = 1
             /\ OpByte \in {0, 1, 2}
             /\ kernel[1].op = OpName(OpByte)

\* Opcode 255 with two operands has been refused.
C5_Witness ==
    /\ Returned
    /\ PayloadLen >= 9
    /\ OpByte = 255
    /\ ret = "InvalidInstructionData"
    /\ kernel = <<>>

\* C6: an invocation with fewer than 9 bytes returns InvalidInstructionData,
\* whatever the bytes; no operand is decoded, no kernel operation is invoked.
C6_ShortPayloadRejected ==
    (Returned /\ PayloadLen < 9)
        => /\ ret = "InvalidInstructionData"
           /\ a_bytes = <<>>
           /\ b_bytes = <<>>
           /\ a = NoValue
           /\ b = NoValue
           /\ kernel = <<>>
           /\ log = <<>>

\* Eight bytes that begin with opcode 2 have been refused.
C6_Witness ==
    /\ Returned
    /\ PayloadLen = 8
    /\ OpByte = 2
    /\ ret = "InvalidInstructionData"

\* C7: a payload of at least 9 bytes passes the length check, no byte at
\* index 9 or beyond is read, and the outcome, the value and the trace of an
\* invocation on the first 9 bytes of a longer payload are those of the
\* invocation on the longer payload.
C7_TrailingBytesIgnored ==
    /\ reads \subseteq 0..8
    /\ (Returned /\ PayloadLen >= 9) => a_bytes = DividendBytes
    /\ (Returned /\ prev.valid /\ Len(prev.instruction_data) > 9
            /\ instruction_data = Take(prev.instruction_data, 9))
          => /\ ret = prev.ret
             /\ result = prev.result
             /\ log = prev.log

\* A payload longer than 9 bytes has succeeded, and so have its first 9.
C7_Witness ==
    /\ Returned
    /\ prev.valid
    /\ Len(prev.instruction_data) > 9
    /\ instruction_data = Take(prev.instruction_data, 9)
    /\ prev.ret = "Ok"
    /\ ret = "Ok"
    /\ reads = 0..8

\* C8: an invocation returns Ok, InvalidInstructionData or InvalidArgument and
\* nothing else, for every payload of every length.
C8_OnlyTwoFailures ==
    /\ ret \in {"none", "Ok", "InvalidInstructionData", "InvalidArgument"}
    /\ Returned => ret # "none"

\* Both failures have been returned in one run.
C8_Witness ==
    /\ Returned
    /\ prev.valid
    /\ prev.ret = "InvalidArgument"
    /\ ret = "InvalidInstructionData"

\* C9: InvalidArgument is returned exactly when the payload has at least 9
\* bytes, opcode 2 and a zero divisor; InvalidInstructionData exactly when it
\* has fewer than 9 bytes or an opcode other than 0, 1, 2; every other
\* payload returns Ok.
C9_FailureConditions ==
    Returned =>
        LET short   == PayloadLen < 9
            unknown == ~short /\ OpByte \notin {0, 1, 2}
            divzero == ~short /\ OpByte = 2 /\ DivisorIsZero
        IN  /\ ret = "InvalidArgument" <=> divzero
            /\ ret = "InvalidInstructionData" <=> (short \/ unknown)
            /\ ret = "Ok" <=> ~(divzero \/ short \/ unknown)
            /\ ~(divzero /\ (short \/ unknown))

\* An infinity divided by +0.0 has been refused.
C9_Witness ==
    /\ Returned
    /\ PayloadLen >= 9
    /\ OpByte = 2
    /\ IsInf(OperandA)
    /\ DivisorBytes = <<0, 0, 0, 0>>
    /\ ret = "InvalidArgument"

\* C10: an invocation on the payload of the invocation before it decodes the
\* same opcode and the same operands and returns the same outcome with the
\* same computed value, bit for bit.
C10_Deterministic ==
    (Returned /\ prev.valid /\ prev.instruction_data = instruction_data)
        => /\ instruction_type = prev.instruction_type
           /\ a = prev.a
           /\ b = prev.b
           /\ ret = prev.ret
           /\ result = prev.result
           /\ log = prev.log

\* The same add has been computed twice.
C10_Witness ==
    /\ Returned
    /\ prev.valid
    /\ prev.instruction_data = instruction_data
    /\ PayloadLen >= 9
    /\ OpByte = 0
    /\ result # NoValue
    /\ result = prev.result

\* What an invocation on payload p returns and computes when nothing but p
\* decides it.
ExpectedRet(p) ==
    IF Len(p) < 9 \/ p[1] \notin {0, 1, 2} THEN "InvalidInstructionData"
    ELSE IF p[1] = 2 /\ IsZero(from_le_bytes(SubSeq(p, 6, 9)))
         THEN "InvalidArgument"
    ELSE "Ok"

ExpectedValue(p) ==
    IF ExpectedRet(p) # "Ok" THEN NoValue
    ELSE LET x == from_le_bytes(SubSeq(p, 2, 5))
             y == from_le_bytes(SubSeq(p, 6, 9))
         IN  CASE p[1] = 0 -> F32Add(x, y)
               [] p[1] = 1 -> F32Mul(x, y)
               [] p[1] = 2 -> F32Div(x, y)

\* C11: whatever the invocation before it was given, and whether it succeeded
\* or failed, an invocation returns and computes what its own payload alone
\* decides; nothing of the earlier invocation is carried into it.
C11_NoSessionState ==
    (Returned /\ prev.valid)
        => /\ ret = ExpectedRet(instruction_data)
           /\ result = ExpectedValue(instruction_data)
           /\ kernel # <<>> => /\ kernel[1].a = a
                               /\ kernel[1].b = b
                               /\ a = OperandA
                               /\ b = OperandB

\* A multiply that succeeded is followed by the division 1.0 / 3.0, which
\* succeeds with 0x3eaaaaab.
C11_Witness ==
    /\ Returned
    /\ prev.valid
    /\ prev.instruction_type = 1
    /\ prev.ret = "Ok"
    /\ prev.result # F32(0, 127, 0)
    /\ PayloadLen >= 9
    /\ OpByte = 2
    /\ ret = "Ok"
    /\ result = F32(0, 125, 2796203)

\* The invocation has written its trace line, which only a success does.
Traced == log # <<>>

\* C14: a successful invocation returns the bare success status; the value
\* it computed is in its trace line and nowhere in what it returns, so two
\* successful invocations with different opcodes or operands return the
\* same thing.
C14_SuccessCarriesNoValue ==
    /\ (Returned /\ Traced) =>
          /\ ret = "Ok"
          /\ log[1].result = Display(result)
    /\ (Returned /\ Traced /\ prev.valid /\ prev.log # <<>>) =>
          ret = prev.ret

\* A multiply that overflowed to infinity is followed by the add
\* 1.0 + 3.0 = 4.0; both return Ok.
C14_Witness ==
    /\ Returned
    /\ Traced
    /\ prev.valid
    /\ prev.log # <<>>
    /\ prev.instruction_type = 1
    /\ IsInf(prev.result)
    /\ instruction_type = 0
    /\ result = F32(0, 129, 0)
    /\ ret = "Ok"
    /\ prev.ret = "Ok"

\* C15: no invocation calls sqrt_float, whatever its payload; with opcode
\* 3 and at least 9 bytes it returns InvalidInstructionData without a kernel
\* call, a value or a trace line, as with opcode 255.
C15_SqrtUnreachable ==
    /\ \A i \in 1..Len(kernel) : kernel[i].op # "sqrt_float"
    /\ (Returned /\ PayloadLen >= 9 /\ OpByte \in {3, 255}) =>
          /\ ret = "InvalidInstructionData"
          /\ kernel = <<>>
          /\ result = NoValue
          /\ log = <<>>

\* Opcode 3 with the operand 2.0 has been rejected.
C15_Witness ==
    /\ Returned
    /\ PayloadLen >= 9
    /\ OpByte = 3
    /\ a = F32(0, 128, 0)
    /\ ret = "InvalidInstructionData"
    /\ kernel = <<>>

\* An infinity or a NaN.
Special(x) == IsInf(x) \/ IsNaN(x)

\* C16 as amended: an add or multiply of finite operands that overflows
\* gives an infinity (f32::MAX * 2.0 gives +infinity) and returns Ok; an
\* add or multiply with an infinite or NaN operand returns Ok with an
\* infinity or a NaN; a divide with such an operand returns InvalidArgument
\* for a zero divisor and otherwise Ok with an infinity, a NaN or a zero;
\* every invocation that computed an infinity or a NaN returns Ok.
C16_EdgeCasesAreResults ==
    /\ (Returned /\ PayloadLen >= 9 /\ OpByte \in {0, 1}) =>
          /\ ret = "Ok"
          /\ Traced
          /\ ~Special(OperandA) /\ ~Special(OperandB) => ~IsNaN(result)
          /\ Special(OperandA) \/ Special(OperandB) => Special(result)
          /\ (OpByte = 1 /\ OperandA = F32(0, 254, 8388607)
                /\ OperandB = F32(0, 128, 0)) => result = F32(0, 255, 0)
    /\ (Returned /\ PayloadLen >= 9 /\ OpByte = 2
            /\ (Special(OperandA) \/ Special(OperandB))) =>
          IF DivisorIsZero THEN ret = "InvalidArgument"
          ELSE ret = "Ok" /\ (Special(result) \/ IsZero(result))
    /\ (Returned /\ result # NoValue /\ Special(result)) =>
          ret = "Ok" /\ Traced

\* f32::MAX * 2.0 has returned Ok with +infinity.
C16_Witness ==
    /\ Returned
    /\ PayloadLen >= 9
    /\ OpByte = 1
    /\ OperandA = F32(0, 254, 8388607)
    /\ OperandB = F32(0, 128, 0)
    /\ result = F32(0, 255, 0)
    /\ ret = "Ok"

\* C16 as stated: every add, multiply or divide with an infinite or NaN
\* operand returns Ok with an infinity or a NaN.
C16_SpecialOperandGivesSpecial ==
    (Returned /\ PayloadLen >= 9 /\ OpByte \in {0, 1, 2}
        /\ (Special(OperandA) \/ Special(OperandB)))
        => ret = "Ok" /\ Special(result)

\* C19: for a payload of any length an invocation returns Ok or one of the
\* two errors and never panics; every byte index it reads is inside the
\* payload; byte 0 is read only when the payload is known to be nonempty,
\* and bytes 1..8 only when it is known to have at least 9 bytes.
C19_Total ==
    /\ ret # "Panic"
    /\ Returned => ret \in {"Ok", "InvalidInstructionData", "InvalidArgument"}
    /\ \A i \in reads : 0 <= i /\ i < PayloadLen
    /\ pc = "read_type" \/ 0 \in reads => PayloadLen >= 1
    /\ pc \in {"slice_a", "slice_b"} \/ reads \cap 1..8 # {} =>
          PayloadLen >= 9
    /\ Returned /\ PayloadLen >= 9 => reads = 0..8
    /\ Returned /\ PayloadLen \in 1..8 => reads = {0}
    /\ Returned /\ PayloadLen = 0 => reads = {}

\* A payload of 8 bytes has been rejected after the read of byte 0 alone.
C19_Witness ==
    /\ Returned
    /\ PayloadLen = 8
    /\ reads = {0}
    /\ ret = "InvalidInstructionData"

Decoded == a # NoValue /\ b # NoValue

\* C21: the opcode is byte 0, operand A is the binary32 whose little-endian
\* bytes are bytes 1..4 and operand B the one whose bytes are bytes 5..8
\* (least significant byte first, the sign in the last); of two successive
\* payloads of 9 bytes or more, the opcodes agree exactly when byte 0 does,
\* the operands A exactly when bytes 1..4 do and the operands B exactly
\* when bytes 5..8 do.
C21_PositionalLittleEndian ==
    /\ Decoded =>
          /\ instruction_type = instruction_data[1]
          /\ a_bytes = DividendBytes
          /\ b_bytes = DivisorBytes
          /\ to_le_bytes(a) = DividendBytes
          /\ to_le_bytes(b) = DivisorBytes
          /\ a.m % 256 = instruction_data[2]
          /\ a.s = instruction_data[5] \div 128
          /\ b.m % 256 = instruction_data[6]
          /\ b.s = instruction_data[9] \div 128
    /\ (Returned /\ prev.valid /\ PayloadLen >= 9
            /\ Len(prev.instruction_data) >= 9) =>
          /\ instruction_type = prev.instruction_type
                <=> instruction_data[1] = prev.instruction_data[1]
          /\ a = prev.a
                <=> DividendBytes = SubSeq(prev.instruction_data, 2, 5)
          /\ b = prev.b
                <=> DivisorBytes = SubSeq(prev.instruction_data, 6, 9)

\* An add of 1.0 and something other than 3.0 is followed by the add of 1.0
\* and 3.0: bytes 5..8 alone differ and operand B alone differs.
C21_Witness ==
    /\ Returned
    /\ prev.valid
    /\ PayloadLen >= 9
    /\ Len(prev.instruction_data) >= 9
    /\ instruction_data[1] = 0
    /\ prev.instruction_data[1] = 0
    /\ DividendBytes = SubSeq(prev.instruction_data, 2, 5)
    /\ DivisorBytes # SubSeq(prev.instruction_data, 6, 9)
    /\ a = F32(0, 127, 0)
    /\ prev.a = a
    /\ b = F32(0, 128, 4194304)
    /\ prev.b # b

\* The operation a trace line names at each msg! statement.
TraceOp ==
    CASE pc = "msg_add" -> "Add"
      [] pc = "msg_multiply" -> "Multiply"
      [] pc = "msg_divide" -> "Divide"

\* What the msg! statement and the statement after it do, and what an
\* invocation that returned has returned.
TraceStep ==
    /\ pc \in {"msg_add", "msg_multiply", "msg_divide"} =>
          /\ log' = Append(log, Line(TraceOp, a, b, result))
          /\ pc' = "ok"
          /\ UNCHANGED <<ret, result, kernel, a, b, instruction_type,
                         instruction_data>>
    /\ pc = "ok" => pc' = "returned" /\ ret' = "Ok" /\ log' = log
    /\ pc = "returned" => ret = ExpectedRet(instruction_data)

\* C22: the statement after the arithmetic of each of the three branches
\* appends one trace line with the operation, the two operands and the
\* result, and does nothing else: it always goes on to the return of Ok,
\* changes no local, and what the invocation returns is what its payload
\* decides, the trace line playing no part.
C22_TraceIsObservational == [][TraceStep]_vars

\* The add of +infinity and -infinity has traced its NaN and is about to
\* return.
C22_Witness ==
    /\ pc = "ok"
    /\ instruction_type = 0
    /\ IsNaN(result)
    /\ ~IsNaN(a)
    /\ Len(log) = 1
    /\ log[1].op = "Add"
    /\ log[1].result.text = "NaN"

\* The error values of a ProgramResult.
Errors == {"InvalidInstructionData", "InvalidArgument"}

\* C23: an invocation that has an error has returned with it at once: it
\* has no value, no trace line and no kernel call other than the one
\* divide_floats that reported the zero divisor; an invocation writes at
\* most one trace line, it has written exactly one when it returns Ok and
\* none when it returns an error, and the line is written after the value
\* is computed and before the return.
C23_ErrorsAreTerminal ==
    /\ ret \in Errors =>
          /\ pc \in {"returned", "idle"}
          /\ result = NoValue
          /\ log = <<>>
          /\ kernel # <<>> =>
                /\ ret = "InvalidArgument"
                /\ kernel = << Invoked("divide_floats", a, b) >>
    /\ Len(log) <= 1
    /\ ret = "Ok" => Len(log) = 1 /\ pc \in {"returned", "idle"}
    /\ log # <<>> =>
          /\ result # NoValue
          /\ Len(kernel) = 1
          /\ pc \in {"ok", "returned", "idle"}
    /\ pc \in {"msg_add", "msg_multiply", "msg_divide"} =>
          result # NoValue /\ log = <<>> /\ ret = "none"

\* The division of +infinity by -0.0 has returned InvalidArgument with no
\* value and no trace line.
C23_Witness ==
    /\ Returned
    /\ ret = "InvalidArgument"
    /\ a = F32(0, 255, 0)
    /\ b = F32(1, 0, 0)
    /\ kernel = << Invoked("divide_floats", a, b) >>
    /\ result = NoValue
    /\ log = <<>>

\* C24: an invocation never makes more than one kernel call; when it has
\* returned it has made exactly the call its opcode selects, on the two
\* operands of the payload, if the payload has at least 9 bytes and the
\* opcode is 0, 1 or 2, and no call at all otherwise.
C24_AtMostOneKernelOperation ==
    /\ Len(kernel) <= 1
    /\ Returned =>
          kernel = IF PayloadLen >= 9 /\ OpByte \in {0, 1, 2}
                   THEN << Invoked(OpName(OpByte), OperandA, OperandB) >>
                   ELSE <<>>

\* The multiplication of 10.0 by 10.0 has made its one call.
C24_Witness ==
    /\ Returned
    /\ PayloadLen >= 9
    /\ OpByte = 1
    /\ a = F32(0, 130, 2097152)
    /\ b = F32(0, 130, 2097152)
    /\ kernel = << Invoked("multiply_floats", a, b) >>

\* C25: the length check is reached only with a nonempty payload, the
\* match only with 9 bytes or more, and divide_floats, which tests the
\* divisor, only from the match with opcode 2; a payload shorter than 9
\* bytes returns InvalidInstructionData from the emptiness check (1
\* statement) or the length check (3 statements) whatever its opcode, an
\* unknown opcode with 9 bytes or more returns InvalidInstructionData
\* whatever its divisor bytes, and InvalidArgument comes only from opcode 2
\* with 9 bytes or more.
C25_ChecksInOrder ==
    /\ pc = "check_len" => PayloadLen >= 1 /\ instruction_type = OpByte
    /\ pc = "match" => PayloadLen >= 9 /\ Decoded
    /\ kernel # <<>> => PayloadLen >= 9 /\ instruction_type \in {0, 1, 2}
    /\ pc = "msg_divide" => ~IsZero(b)
    /\ (Returned /\ PayloadLen < 9) =>
          /\ ret = "InvalidInstructionData"
          /\ steps = IF PayloadLen = 0 THEN 1 ELSE 3
          /\ ~Decoded
          /\ kernel = <<>>
    /\ (Returned /\ PayloadLen >= 9 /\ OpByte \notin {0, 1, 2}) =>
          ret = "InvalidInstructionData" /\ kernel = <<>>
    /\ (Returned /\ ret = "InvalidArgument") =>
          PayloadLen >= 9 /\ OpByte = 2

\* A payload of 8 bytes with the unknown opcode 255 has been rejected by
\* the length check.
C25_Witness ==
    /\ Returned
    /\ PayloadLen = 8
    /\ OpByte = 255
    /\ steps = 3
    /\ ret = "InvalidInstructionData"
    /\ kernel = <<>>

\* Between its entry and its return an invocation leaves the program id
\* and the accounts as they were passed, and what it has returned and
\* computed is what the payload decides.
CallerUntouched ==
    /\ pc # "idle" => program_id' = program_id /\ accounts' = accounts
    /\ pc = "returned" =>
          /\ ret = ExpectedRet(instruction_data)
          /\ result = ExpectedValue(instruction_data)

\* C26: whatever program id and accounts an invocation is entered with, it
\* returns and computes what its payload alone decides, and no statement
\* of it changes the program id or an account.
C26_OnlyThePayloadMatters == [][CallerUntouched]_vars

\* An add entered with another program id and one account has returned Ok
\* with the sum, the account as it was passed.
C26_Witness ==
    /\ Returned
    /\ program_id = 2
    /\ accounts = << [key |-> 3, lamports |-> 5, data |-> <<7>>] >>
    /\ PayloadLen >= 9
    /\ OpByte = 0
    /\ ret = "Ok"
    /\ result = F32Add(OperandA, OperandB)

-----------------------------------------------------------------------------
(* The kernel called directly. *)

\* A kernel function has been called and has returned.
LibCalled == lib.fn # "none"

FloatFns == {"add_floats", "multiply_floats", "divide_floats", "sqrt_float"}
DoubleFns == {"add_doubles", "multiply_doubles", "divide_doubles"}

\* The two f32 and the two f64 bit patterns of zero.
Zeros32 == {F32(0, 0, 0), F32(1, 0, 0)}
Zeros64 == {F64(0, 0, 0, 0), F64(1, 0, 0, 0)}

\* C12: divide_floats(a, b) returns an error exactly when b is +0.0 or
\* -0.0 (a NaN b is no zero) and Ok(a / b), the quotient of the host that
\* ran the call, otherwise; no other kernel
\* function fails, and the error is the message "Division by zero".
C12_DivideByZeroOnlyFailure ==
    /\ lib.fn = "divide_floats" =>
          /\ ~lib.out.ok <=> lib.y \in Zeros32
          /\ lib.out.ok /\ lib.on = host =>
                lib.out.val = F32Div(lib.x, lib.y)
    /\ LibCalled /\ ~lib.out.ok =>
          /\ lib.fn \in {"divide_floats", "divide_doubles"}
          /\ lib.out.err = "Division by zero"

\* divide_floats(NaN, -0.0) is the error.
C12_Witness ==
    /\ lib.fn = "divide_floats"
    /\ IsNaN(lib.x)
    /\ lib.y = F32(1, 0, 0)
    /\ ~lib.out.ok
    /\ lib.out.err = "Division by zero"
    /\ lib.before = NoOut

\* The class of an f32 and of an f64: sign and kind.
Class32(x) ==
    <<x.s, IF IsNaN(x) THEN "nan" ELSE IF IsInf(x) THEN "inf"
           ELSE IF IsZero(x) THEN "zero" ELSE "finite">>

Class64(x) ==
    <<x.s, IF F64IsNaN(x) THEN "nan" ELSE IF F64IsInf(x) THEN "inf"
           ELSE IF F64IsZero(x) THEN "zero" ELSE "finite">>

\* The single-precision function that goes with a double-precision one.
FloatFn(fn) ==
    CASE fn = "add_doubles" -> "add_floats"
      [] fn = "multiply_doubles" -> "multiply_floats"
      [] fn = "divide_doubles" -> "divide_floats"

\* C13: add_doubles and multiply_doubles never fail; divide_doubles fails
\* exactly when its divisor is +0.0 or -0.0 and otherwise returns
\* Ok(a / b); every double operation succeeds or fails as the float
\* operation does on operands of the same classes.
C13_DoublesLikeFloats ==
    /\ lib.fn \in {"add_doubles", "multiply_doubles"} => lib.out.ok
    /\ lib.fn = "divide_doubles" =>
          /\ ~lib.out.ok <=> lib.y \in Zeros64
          /\ lib.out.ok /\ lib.on = host =>
                lib.out.val = F64Div(lib.x, lib.y)
          /\ ~lib.out.ok => lib.out.err = "Division by zero"
    /\ lib.fn \in DoubleFns =>
          \A u \in LibOperands, v \in LibOperands :
              Class32(u) = Class64(lib.x) /\ Class32(v) = Class64(lib.y) =>
                  Outcome(FloatFn(lib.fn), u, v).ok = lib.out.ok

\* divide_doubles(1.0, -0.0) is the error.
C13_Witness ==
    /\ lib.fn = "divide_doubles"
    /\ lib.x = F64(0, 1023, 0, 0)
    /\ lib.y = F64(1, 0, 0, 0)
    /\ ~lib.out.ok
    /\ lib.before = NoOut

\* An f32 below zero: -0.0 and the NaNs are not.
Negative(x) == x.s = 1 /\ ~IsNaN(x) /\ ~IsZero(x)

\* C17: sqrt_float returns a plain f32 for every argument, never an error,
\* and for every argument below zero, -infinity included, that f32 is a
\* NaN; an argument that is neither below zero nor a NaN gives no NaN.
C17_SqrtNegativeIsNaN ==
    lib.fn = "sqrt_float" =>
        /\ lib.out.ok
        /\ lib.out.err = ""
        /\ Negative(lib.x) => IsNaN(lib.out.val)
        /\ ~Negative(lib.x) /\ ~IsNaN(lib.x) => ~IsNaN(lib.out.val)

\* sqrt_float(-1.0) has returned a NaN.
C17_Witness ==
    /\ lib.fn = "sqrt_float"
    /\ lib.x = F32(1, 127, 0)
    /\ lib.out.ok
    /\ IsNaN(lib.out.val)

\* C18: a kernel function called again with the same arguments, on the same
\* or on any other host, returns what it returned before, bit for bit.
C18_BitIdenticalOnEveryHost ==
    (LibCalled /\ lib.before # NoOut) => lib.out = lib.before

\* C27: every kernel call an invocation makes is a call of add_floats,
\* multiply_floats or divide_floats, never of a double-precision function;
\* the runs of the entrypoint hold no direct call of the library, and every
\* value computed is a binary32.
C27_NoDoublePrecision ==
    /\ \A i \in 1..Len(kernel) :
          /\ kernel[i].op \in {"add_floats", "multiply_floats", "divide_floats"}
          /\ kernel[i].op \notin DoubleFns
    /\ lib.fn \notin DoubleFns
    /\ result # NoValue =>
          /\ result.s \in {0, 1}
          /\ result.e \in 0..255
          /\ result.m \in 0..8388607

\* f32::MAX + f32::MAX has been computed by add_floats as +infinity.
C27_Witness ==
    /\ Returned
    /\ a = F32(0, 254, 8388607)
    /\ b = F32(0, 254, 8388607)
    /\ kernel = << Invoked("add_floats", a, b) >>
    /\ result = F32(0, 255, 0)

\* A finite f32 is Sig(x) * 2^Lsb(x) in magnitude.
Lsb(x) == Exp(x) - 150

Least(x, y) == IF x <= y THEN x ELSE y

Finite(x) == x.e # 255

\* The natural numbers x and y apart.
BDist(x, y) == IF BLess(x, y) THEN BSub(y, x) ELSE BSub(x, y)

\* r is the f32 magnitude nearest to the exact (num / den) * 2^k, num and
\* den natural numbers above zero: an infinity when the exact value is at
\* least f32::MAX plus half its last place, (2^25 - 1) * 2^103, and
\* otherwise a finite r no more than half its last place away, with an
\* even significand when exactly half away.
NearestF32(num, k, den, r) ==
    IF IsInf(r)
    THEN LET m == Least(k, 103)
         IN  ~BLess(BShl(num, k - m),
                    BShl(BMul(den, BFromInt(33554431)), 103 - m))
    ELSE LET m  == Least(k, Lsb(r))
             d  == BDist(BShl(num, k - m),
                         BShl(BMul(BFromInt(Sig(r)), den), Lsb(r) - m))
             d2 == BMulSmall(d, 2)
             h  == BShl(den, Lsb(r) - m)
         IN  BLess(d2, h) \/ (d2 = h /\ Sig(r) % 2 = 0)

\* r is the correctly rounded sum of the finite x and y.
RoundedSum(x, y, r) ==
    LET m  == Least(Lsb(x), Lsb(y))
        mx == BShl(BFromInt(Sig(x)), Lsb(x) - m)
        my == BShl(BFromInt(Sig(y)), Lsb(y) - m)
        n  == IF x.s = y.s THEN BAdd(mx, my) ELSE BDist(mx, my)
        s  == IF x.s = y.s \/ BLess(my, mx) THEN x.s ELSE y.s
    IN  IF BNorm(n) = <<>> THEN IsZero(r)
        ELSE r.s = s /\ ~IsNaN(r) /\ NearestF32(BNorm(n), m, <<1>>, r)

\* r is the correctly rounded product of the finite nonzero x and y.
RoundedProduct(x, y, r) ==
    /\ r.s = Xor(x.s, y.s)
    /\ ~IsNaN(r)
    /\ NearestF32(BMul(BFromInt(Sig(x)), BFromInt(Sig(y))),
                  Lsb(x) + Lsb(y), <<1>>, r)

\* r is the correctly rounded quotient of the finite nonzero x and y.
RoundedQuotient(x, y, r) ==
    /\ r.s = Xor(x.s, y.s)
    /\ ~IsNaN(r)
    /\ NearestF32(BFromInt(Sig(x)), Lsb(x) - Lsb(y), BFromInt(Sig(y)), r)

\* C28: what add_floats, multiply_floats and divide_floats return for
\* finite operands is the exact sum, product or quotient rounded once to
\* the nearest binary32, ties to even, an infinity when the exact value is
\* beyond the range; divide_floats(1.0, 3.0) is 0x3eaaaaab, 1.0 + 2^-24 is
\* 1.0, (1.0 + 2^-23) + 2^-24 is 1.0 + 2^-22 and f32::MAX + 2^103 is
\* +infinity.
C28_RoundsOnceToNearestEven ==
    (LibCalled /\ lib.fn \in {"add_floats", "multiply_floats", "divide_floats"}
        /\ lib.out.ok /\ Finite(lib.x) /\ Finite(lib.y)) =>
        LET x == lib.x
            y == lib.y
            r == lib.out.val
        IN  /\ lib.fn = "add_floats" => RoundedSum(x, y, r)
            /\ (lib.fn = "multiply_floats" /\ ~IsZero(x) /\ ~IsZero(y)) =>
                  RoundedProduct(x, y, r)
            /\ (lib.fn = "divide_floats" /\ ~IsZero(x)) =>
                  RoundedQuotient(x, y, r)
            /\ (lib.fn = "divide_floats" /\ x = F32(0, 127, 0)
                    /\ y = F32(0, 128, 4194304)) => r = F32(0, 125, 2796203)
            /\ (lib.fn = "add_floats" /\ x = F32(0, 127, 0)
                    /\ y = F32(0, 103, 0)) => r = F32(0, 127, 0)
            /\ (lib.fn = "add_floats" /\ x = F32(0, 127, 1)
                    /\ y = F32(0, 103, 0)) => r = F32(0, 127, 2)
            /\ (lib.fn = "add_floats" /\ x = F32(0, 254, 8388607)
                    /\ y = F32(0, 230, 0)) => r = F32(0, 255, 0)

\* divide_floats(1.0, 3.0) has returned 0x3eaaaaab.
C28_Witness ==
    /\ lib.fn = "divide_floats"
    /\ lib.x = F32(0, 127, 0)
    /\ lib.y = F32(0, 128, 4194304)
    /\ lib.out.ok
    /\ lib.out.val = F32(0, 125, 2796203)

\* What the two conversions do in one step: from the first the invocation
\* goes on to the second with bytes 1..5 as the first array, and from the
\* second on to the decoding with bytes 5..9 as the second array.
ConversionStep ==
    /\ pc = "slice_a" =>
          /\ PayloadLen >= 9
          /\ pc' = "slice_b"
          /\ a_bytes' = DividendBytes
          /\ Len(a_bytes') = 4
          /\ ret' = ret
    /\ pc = "slice_b" =>
          /\ PayloadLen >= 9
          /\ pc' = "decode"
          /\ b_bytes' = DivisorBytes
          /\ Len(b_bytes') = 4
          /\ ret' = ret

\* C29: once the length check has passed, the conversion of bytes 1..5 and
\* the conversion of bytes 5..9 to arrays of 4 bytes always succeed: neither
\* statement ever returns InvalidInstructionData, nor anything else.
C29_ConversionsNeverFail == [][ConversionStep]_vars

\* Both conversions have succeeded on a payload of more than 9 bytes.
C29_Witness ==
    /\ pc = "decode"
    /\ PayloadLen > 9
    /\ a_bytes = DividendBytes
    /\ b_bytes = DivisorBytes

====
